---- MODULE Spec2Model ----
(***************************************************************************)
(* Crossword generation as constraint satisfaction: crossword.py builds    *)
(* the variables (slots) and their overlaps from a grid; generate.py       *)
(* prunes the domains (node consistency, AC-3) and searches by             *)
(* backtracking.  Indices are 0-based as in the Python source; a word is a *)
(* sequence of letters and At(word, k) is Python's word[k].                *)
(***************************************************************************)
EXTENDS Integers, Sequences, FiniteSets, TLC

\* ------------------------------------------------------------- bounds
\* A structure has Height rows and Width columns; every boolean matrix of
\* that size is one.
Height == 2
Width == 3
\* The words of the pool have MinLength..MaxWordLen letters over Letters.  A
\* slot has at least MinLength cells (crossword.py keeps a run only "if
\* length > 1"), so no shorter word fits any slot.
MinLength == 2
MaxWordLen == 3
Letters == {"A", "B"}
\* A vocabulary holds at most MaxWords words of the pool.
MaxWords == 3
\* Where ac3 may take the arcs in any order, the grid has at most
\* MaxSlotsAnyOrder slots.
MaxSlotsAnyOrder == 4
\* consistent() is applied to assignments of at most MaxAssigned slots.
MaxAssigned == 3

\* Python's None, and a value that is not None.
None == <<>>
Some(x) == <<x>>

ACROSS == "across"
DOWN == "down"

VARIABLES
    pc,         \* where the run is
    structure,  \* Crossword.structure
    words,      \* Crossword.words
    variables,  \* Crossword.variables
    overlaps,   \* Crossword.overlaps
    domains,    \* CrosswordCreator.domains
    arcs,       \* ac3's worklist
    ac3_ret,    \* what ac3 returned (None while it has not returned)
    stack,      \* the frames of backtrack, innermost last
    result,     \* what solve() returned, or what consistent(checked) did
    prev,       \* what the earlier runs of solve() on this input returned
    checked     \* the assignment handed to consistent()

vars == <<pc, structure, words, variables, overlaps, domains, arcs, ac3_ret,
          stack, result, prev, checked>>

\* ------------------------------------------------------------ Variable
Variable(i, j, direction, length) ==
    [i |-> i, j |-> j, direction |-> direction, length |-> length]

\* Variable.cells: the cells of the slot, in order.
Cells(v) ==
    [k \in 1..v.length |->
        << v.i + (IF v.direction = DOWN THEN k - 1 ELSE 0),
           v.j + (IF v.direction = ACROSS THEN k - 1 ELSE 0) >>]

Range(s) == {s[k] : k \in DOMAIN s}

\* list.index: the 0-based position of the first occurrence.
Index(s, x) == (CHOOSE k \in DOMAIN s : s[k] = x /\ \A m \in 1..(k - 1) : s[m] # x) - 1

\* ----------------------------------------------------------- Crossword
Structures == [0..(Height - 1) -> [0..(Width - 1) -> BOOLEAN]]

\* Crossword.height and Crossword.width
height(s) == Cardinality(DOMAIN s)
width(s) == Cardinality(DOMAIN s[0])

\* The cells of the run are counted from (i, j) on, while they are fillable.
RECURSIVE RunDown(_, _, _)
RunDown(s, k, j) ==
    IF k < height(s) /\ s[k][j] THEN 1 + RunDown(s, k + 1, j) ELSE 0

RECURSIVE RunAcross(_, _, _)
RunAcross(s, i, k) ==
    IF k < width(s) /\ s[i][k] THEN 1 + RunAcross(s, i, k + 1) ELSE 0

VariableSet(s) ==
    { Variable(i, j, DOWN, 1 + RunDown(s, i + 1, j)) :
        <<i, j>> \in { c \in (0..(height(s) - 1)) \X (0..(width(s) - 1)) :
            /\ s[c[1]][c[2]]
            /\ (c[1] = 0 \/ ~s[c[1] - 1][c[2]])
            /\ 1 + RunDown(s, c[1] + 1, c[2]) > 1 } }
    \cup
    { Variable(i, j, ACROSS, 1 + RunAcross(s, i, j + 1)) :
        <<i, j>> \in { c \in (0..(height(s) - 1)) \X (0..(width(s) - 1)) :
            /\ s[c[1]][c[2]]
            /\ (c[2] = 0 \/ ~s[c[1]][c[2] - 1])
            /\ 1 + RunAcross(s, c[1], c[2] + 1) > 1 } }

\* OverlapChoices with cells1.index(...) written for both positions.
OverlapChoicesSameIndex(v1, v2) ==
    LET cells1 == Cells(v1)
        cells2 == Cells(v2)
        intersection == Range(cells1) \cap Range(cells2)
    IN  IF intersection = {} THEN {None}
        ELSE { Some(<<Index(cells1, c), Index(cells1, c)>>) : c \in intersection }

\* The values overlaps[v1, v2] can get: None without a shared cell, else the
\* positions of the cell that intersection.pop() hands out (any one of them).
OverlapChoices(v1, v2) ==
    LET cells1 == Cells(v1)
        cells2 == Cells(v2)
        intersection == Range(cells1) \cap Range(cells2)
    IN  IF intersection = {} THEN {None}
        ELSE { Some(<<Index(cells1, c), Index(cells2, c)>>) : c \in intersection }

Pairs(vs) == { p \in vs \X vs : p[1] # p[2] }

\* Every table the double loop over the variables can build.
RECURSIVE OverlapTables(_)
OverlapTables(ps) ==
    IF ps = {} THEN { <<>> }
    ELSE LET p == CHOOSE q \in ps : TRUE
         IN  { (p :> c) @@ t : c \in OverlapChoices(p[1], p[2]),
                               t \in OverlapTables(ps \ {p}) }

\* Crossword.neighbors
neighbors(var) ==
    { v \in variables : v # var /\ overlaps[<<v, var>>] # None }

\* The 0-based letter of a word.
At(word, k) == word[k + 1]

WordPool == UNION { [1..n -> Letters] : n \in MinLength..MaxWordLen }

Vocabularies(n) == { ws \in SUBSET WordPool : Cardinality(ws) <= n }

\* ---------------------------------------------------------------- init
\* The structure file and the words file have been read.
InitOn(structures, vocabularies) ==
    /\ pc = "Crossword"
    /\ structure \in structures
    /\ words \in vocabularies
    /\ variables = {}
    /\ overlaps = <<>>
    /\ domains = <<>>
    /\ arcs = <<>>
    /\ ac3_ret = None
    /\ stack = <<>>
    /\ result = None
    /\ prev = <<>>
    /\ checked = <<>>

Init == InitOn(Structures, Vocabularies(MaxWords))

\* Crossword.__init__ and CrosswordCreator.__init__
CrosswordInit ==
    /\ pc = "Crossword"
    /\ variables' = VariableSet(structure)
    /\ overlaps' \in OverlapTables(Pairs(VariableSet(structure)))
    /\ domains' = [var \in VariableSet(structure) |-> words]
    /\ pc' = "solve"
    /\ UNCHANGED <<structure, words, arcs, ac3_ret, stack, result, prev, checked>>

\* ------------------------------------------------- enforce_node_consistency
NodeConsistent(doms) ==
    [variable \in DOMAIN doms |->
        { word \in doms[variable] : Len(word) = variable.length }]

\* solve(), line 132
EnforceNodeConsistency ==
    /\ pc = "solve"
    /\ domains' = NodeConsistent(domains)
    /\ pc' = "ac3"
    /\ UNCHANGED <<structure, words, variables, overlaps, arcs, ac3_ret,
                   stack, result, prev, checked>>

\* ------------------------------------------------------------------ ac3
\* Revise with all() written for any(): a word stays only if every word of
\* y agrees with it.
ReviseAll(x, y, doms) ==
    LET overlap == overlaps[<<x, y>>]
    IN  IF overlap = None THEN [revised |-> FALSE, domains |-> doms]
        ELSE LET x_index == overlap[1][1]
                 y_index == overlap[1][2]
                 kept == { x_word \in doms[x] :
                            \A y_word \in doms[y] :
                                At(x_word, x_index) = At(y_word, y_index) }
             IN  [revised |-> kept # doms[x],
                  domains |-> [doms EXCEPT ![x] = kept]]

\* revise(x, y): the domains after it, and whether it removed a word.
Revise(x, y, doms) ==
    LET overlap == overlaps[<<x, y>>]
    IN  IF overlap = None THEN [revised |-> FALSE, domains |-> doms]
        ELSE LET x_index == overlap[1][1]
                 y_index == overlap[1][2]
                 kept == { x_word \in doms[x] :
                            \E y_word \in doms[y] :
                                At(x_word, x_index) = At(y_word, y_index) }
             IN  [revised |-> kept # doms[x],
                  domains |-> [doms EXCEPT ![x] = kept]]

\* The arcs (x, y) for the slots y of ys, in one fixed order.
RECURSIVE ArcsOf(_, _)
ArcsOf(x, ys) ==
    IF ys = {} THEN <<>>
    ELSE LET y == CHOOSE n \in ys : TRUE
         IN  << <<x, y>> >> \o ArcsOf(x, ys \ {y})

RECURSIVE ArcsFrom(_)
ArcsFrom(xs) ==
    IF xs = {} THEN <<>>
    ELSE LET x == CHOOSE v \in xs : TRUE
         IN  ArcsOf(x, neighbors(x)) \o ArcsFrom(xs \ {x})

\* arcs = [(x, y) for x in self.domains for y in self.crossword.neighbors(x)]
AllArcs == ArcsFrom(DOMAIN domains)

\* Requeue with the arcs appended the wrong way round, (x, neighbor).
RequeueSwapped(x, y) == ArcsOf(x, neighbors(x) \ {y})

\* Requeue with nothing appended.
RequeueNothing(x, y) == <<>>

\* The arcs (z, x) for the slots z of zs, in one fixed order.
RECURSIVE ArcsTo(_, _)
ArcsTo(zs, x) ==
    IF zs = {} THEN <<>>
    ELSE LET z == CHOOSE n \in zs : TRUE
         IN  << <<z, x>> >> \o ArcsTo(zs \ {z}, x)

\* The arcs ac3 appends after revise(x, y) removed a word.
Requeue(x, y) == ArcsTo(neighbors(x) \ {y}, x)

\* RemoveAt with arcs[0] read and not popped.
RemoveAtKeeps(s, i) == s

\* The worklist without its element at place i.
RemoveAt(s, i) == SubSeq(s, 1, i - 1) \o SubSeq(s, i + 1, Len(s))

\* One turn of ac3's loop on the arc at place i of the worklist: whether ac3
\* returns False in it, the worklist and the domains after it.
Ac3Turn(queue, i, doms) ==
    LET x == queue[i][1]
        y == queue[i][2]
        r == Revise(x, y, doms)
    IN  IF r.revised /\ r.domains[x] = {}
        THEN [failed |-> TRUE, arcs |-> <<>>, domains |-> r.domains]
        ELSE [failed |-> FALSE,
              arcs |-> RemoveAt(queue, i) \o
                       (IF r.revised THEN Requeue(x, y) ELSE <<>>),
              domains |-> r.domains]

\* ac3 as written, arcs.pop(0) in every turn: what it returns and the domains
\* it leaves.
RECURSIVE Ac3Fifo(_, _)
Ac3Fifo(queue, doms) ==
    IF queue = <<>> THEN [ret |-> TRUE, domains |-> doms]
    ELSE LET t == Ac3Turn(queue, 1, doms)
         IN  IF t.failed THEN [ret |-> FALSE, domains |-> t.domains]
             ELSE Ac3Fifo(t.arcs, t.domains)

\* solve(), line 133: the call of ac3 with arcs=None
Ac3Call ==
    /\ pc = "ac3"
    /\ arcs' = AllArcs
    /\ pc' = "ac3_loop"
    /\ UNCHANGED <<structure, words, variables, overlaps, domains, ac3_ret,
                   stack, result, prev, checked>>

\* One turn of ac3's loop, taking the arc at place i of the worklist
\* (arcs.pop(0) is Ac3Step(1)).
Ac3Step(i) ==
    /\ pc = "ac3_loop"
    /\ i \in 1..Len(arcs)
    /\ LET t == Ac3Turn(arcs, i, domains)
       IN  /\ domains' = t.domains
           /\ arcs' = t.arcs
           /\ ac3_ret' = IF t.failed THEN Some(FALSE) ELSE ac3_ret
           /\ pc' = IF t.failed THEN "ac3_returned" ELSE pc
    /\ UNCHANGED <<structure, words, variables, overlaps, stack, result,
                   prev, checked>>

\* The worklist is empty: ac3 returns True.
Ac3Return ==
    /\ pc = "ac3_loop"
    /\ arcs = <<>>
    /\ ac3_ret' = Some(TRUE)
    /\ pc' = "ac3_returned"
    /\ UNCHANGED <<structure, words, variables, overlaps, domains, arcs,
                   stack, result, prev, checked>>

\* ------------------------------------------------------------ backtrack
\* An assignment is the dict's items in insertion order: <<variable, word>>.
Assigned(assignment) == { assignment[k][1] : k \in DOMAIN assignment }

Value(assignment, variable) ==
    assignment[CHOOSE k \in DOMAIN assignment : assignment[k][1] = variable][2]

AsDict(assignment) ==
    [variable \in Assigned(assignment) |-> Value(assignment, variable)]

\* assignment_complete
assignment_complete(assignment) ==
    \A variable \in variables : variable \in Assigned(assignment)

\* What the comparison of line 227 does for one assigned neighbour.
CheckNeighbor(variable, value, neighbor, assignment) ==
    LET overlap == overlaps[<<variable, neighbor>>][1]
        other == Value(assignment, neighbor)
    IN  IF overlap[1] >= Len(value) \/ overlap[2] >= Len(other)
        THEN "IndexError"
        ELSE IF At(value, overlap[1]) # At(other, overlap[2]) THEN "False"
        ELSE "ok"

\* What the loop of consistent() can end with from item k on: the items are
\* taken in the dict's order, one item's neighbours in the set's order.
RECURSIVE ConsistentFrom(_, _)
ConsistentFrom(assignment, k) ==
    IF k > Len(assignment) THEN {"True"}
    ELSE LET variable == assignment[k][1]
             value == assignment[k][2]
             bad == { CheckNeighbor(variable, value, neighbor, assignment) :
                        neighbor \in neighbors(variable) \cap Assigned(assignment) }
                    \ {"ok"}
         IN  IF variable.length # Len(value) THEN {"False"}
             ELSE IF bad # {} THEN bad
             ELSE ConsistentFrom(assignment, k + 1)

\* consistent without the test of line 217 that the words are distinct.
consistentNoDistinct(assignment) == ConsistentFrom(assignment, 1)

\* consistent(assignment): the outcomes it can have, "True", "False" or the
\* exception raised.
consistent(assignment) ==
    IF Cardinality({ assignment[k][2] : k \in DOMAIN assignment }) < Len(assignment)
    THEN {"False"}
    ELSE ConsistentFrom(assignment, 1)

RECURSIVE Sum(_, _)
Sum(f, S) ==
    IF S = {} THEN 0
    ELSE LET x == CHOOSE y \in S : TRUE IN f[x] + Sum(f, S \ {x})

\* order_domain_values.count_conflicts
count_conflicts(value, var, assignment) ==
    LET open == neighbors(var) \ Assigned(assignment)
    IN  Sum([neighbor \in open |->
                LET overlap == overlaps[<<var, neighbor>>][1]
                IN  Cardinality({ word \in domains[neighbor] :
                        At(word, overlap[2]) # At(value, overlap[1]) })],
            open)

\* The values order_domain_values can put first among those not yet tried:
\* sorted() keeps the set's own order among equal counts.
NextValues(var, assignment, remaining) ==
    { value \in remaining :
        \A other \in remaining :
            count_conflicts(value, var, assignment)
                <= count_conflicts(other, var, assignment) }

\* select_unassigned_variable.mrv
mrv(variable) == << Cardinality(domains[variable]), -Cardinality(neighbors(variable)) >>

KeyLeq(a, b) == a[1] < b[1] \/ (a[1] = b[1] /\ a[2] <= b[2])

\* select_unassigned_variable with max() written for min().
select_unassigned_variable_max(assignment) ==
    LET unassigned == variables \ Assigned(assignment)
    IN  { v \in unassigned : \A u \in unassigned : KeyLeq(mrv(u), mrv(v)) }

\* select_unassigned_variable: min() returns the first of the smallest in the
\* order of the set.
select_unassigned_variable(assignment) ==
    LET unassigned == variables \ Assigned(assignment)
    IN  { v \in unassigned : \A u \in unassigned : KeyLeq(mrv(v), mrv(u)) }

\* A call backtrack(assignment) above the frames `below`: it returns the
\* assignment at once, and every caller hands it on, or it starts its loop.
Enter(assignment, below) ==
    IF assignment_complete(assignment)
    THEN /\ result' = Some(AsDict(assignment))
         /\ stack' = <<>>
         /\ pc' = "done"
    ELSE \E var \in select_unassigned_variable(assignment) :
            /\ stack' = Append(below, [var |-> var, assignment |-> assignment,
                                       remaining |-> domains[var]])
            /\ result' = result
            /\ pc' = "backtrack"

\* solve(), line 134
BacktrackCall ==
    /\ pc = "ac3_returned"
    /\ Enter(<<>>, <<>>)
    /\ UNCHANGED <<structure, words, variables, overlaps, domains, arcs,
                   ac3_ret, prev, checked>>

\* One turn of backtrack's loop in the innermost call.
TryValue ==
    /\ pc = "backtrack"
    /\ LET frame == stack[Len(stack)]
       IN  \E value \in NextValues(frame.var, frame.assignment, frame.remaining) :
           LET new_assignment == Append(frame.assignment, <<frame.var, value>>)
               rest == [stack EXCEPT ![Len(stack)].remaining = @ \ {value}]
           IN  \E outcome \in consistent(new_assignment) :
               CASE outcome = "True" -> Enter(new_assignment, rest)
                 [] outcome = "False" -> /\ stack' = rest
                                         /\ UNCHANGED <<result, pc>>
                 [] OTHER -> /\ stack' = <<>>
                             /\ pc' = "raised"
                             /\ UNCHANGED result
    /\ UNCHANGED <<structure, words, variables, overlaps, domains, arcs,
                   ac3_ret, prev, checked>>

\* ReturnNone with the return inside the loop: the call gives up after the
\* first value that failed.
ReturnNoneEarly ==
    /\ pc = "backtrack"
    /\ stack[Len(stack)].remaining # domains[stack[Len(stack)].var]
    /\ stack' = SubSeq(stack, 1, Len(stack) - 1)
    /\ IF Len(stack) = 1
       THEN /\ result' = None
            /\ pc' = "done"
       ELSE UNCHANGED <<result, pc>>
    /\ UNCHANGED <<structure, words, variables, overlaps, domains, arcs,
                   ac3_ret, prev, checked>>

\* The loop of the innermost call is over: it returns None.
ReturnNone ==
    /\ pc = "backtrack"
    /\ stack[Len(stack)].remaining = {}
    /\ stack' = SubSeq(stack, 1, Len(stack) - 1)
    /\ IF Len(stack) = 1
       THEN /\ result' = None
            /\ pc' = "done"
       ELSE UNCHANGED <<result, pc>>
    /\ UNCHANGED <<structure, words, variables, overlaps, domains, arcs,
                   ac3_ret, prev, checked>>

\* ------------------------------------------------------ specifications
\* Another run of main() on the same structure and words files: the same
\* slots and overlaps, a new CrosswordCreator, and solve() again.
Rerun ==
    /\ pc = "done"
    /\ prev = <<>>
    /\ prev' = Append(prev, result)
    /\ domains' = [var \in variables |-> words]
    /\ arcs' = <<>>
    /\ ac3_ret' = None
    /\ stack' = <<>>
    /\ result' = None
    /\ pc' = "solve"
    /\ UNCHANGED <<structure, words, variables, overlaps, checked>>

\* backtrack(dict()) on the domains as enforce_node_consistency left them,
\* after ac3 returned False.
BacktrackUnpruned ==
    /\ pc = "ac3_returned"
    /\ ac3_ret = Some(FALSE)
    /\ domains' = NodeConsistent([var \in variables |-> words])
    /\ pc' = "unpruned"
    /\ UNCHANGED <<structure, words, variables, overlaps, arcs, ac3_ret,
                   stack, result, prev, checked>>

BacktrackUnprunedCall ==
    /\ pc = "unpruned"
    /\ Enter(<<>>, <<>>)
    /\ UNCHANGED <<structure, words, variables, overlaps, domains, arcs,
                   ac3_ret, prev, checked>>

\* The assignments of at most n slots of the grid to words of the pool, as
\* the dict's items in every insertion order.
RECURSIVE Assignments(_)
Assignments(n) ==
    IF n = 0 THEN { <<>> }
    ELSE LET shorter == Assignments(n - 1)
         IN  shorter \cup
             { Append(a, <<v, w>>) :
                 a \in { b \in shorter : Len(b) = n - 1 },
                 v \in variables, w \in WordPool }

\* A call of consistent() on any assignment.
ConsistentCall ==
    /\ pc = "solve"
    /\ \E a \in { b \in Assignments(MaxAssigned) :
                    Cardinality(Assigned(b)) = Len(b) } :
        /\ checked' = a
        /\ \E outcome \in consistent(a) : result' = Some(outcome)
    /\ pc' = "checked"
    /\ UNCHANGED <<structure, words, variables, overlaps, domains, arcs,
                   ac3_ret, stack, prev>>

\* solve() from line 132 on.
Solve ==
    \/ EnforceNodeConsistency
    \/ Ac3Call
    \/ Ac3Step(1)
    \/ Ac3Return
    \/ BacktrackCall
    \/ TryValue
    \/ ReturnNone

Next == CrosswordInit \/ Solve

\* One run of solve() on every grid and vocabulary.
Spec == Init /\ [][Next]_vars

\* solve() is one sequential call: once called it takes its next step as long
\* as it has one.
FairSpec == Spec /\ WF_vars(Solve)

\* Two runs of solve() on the same grid and vocabulary.
NextTwice == Next \/ Rerun

SpecTwice == Init /\ [][NextTwice]_vars

\* enforce_node_consistency and ac3 on the grids of at most MaxSlotsAnyOrder
\* slots, the arcs taken from the worklist in any order, then backtrack on
\* the unpruned domains where ac3 returned False.
InitAnyOrder ==
    InitOn({ s \in Structures : Cardinality(VariableSet(s)) <= MaxSlotsAnyOrder },
           Vocabularies(MaxWords))

NextAnyOrder ==
    \/ CrosswordInit
    \/ EnforceNodeConsistency
    \/ Ac3Call
    \/ \E i \in 1..Len(arcs) : Ac3Step(i)
    \/ Ac3Return
    \/ BacktrackUnpruned
    \/ BacktrackUnprunedCall
    \/ TryValue
    \/ ReturnNone

SpecAnyOrder == InitAnyOrder /\ [][NextAnyOrder]_vars

\* The construction of the crossword from every grid.
InitCrossword == InitOn(Structures, {{}})

NextCrossword == CrosswordInit

SpecCrossword == InitCrossword /\ [][NextCrossword]_vars

\* consistent() on every assignment of slots of every grid.
NextConsistent == CrosswordInit \/ ConsistentCall

SpecConsistent == InitCrossword /\ [][NextConsistent]_vars

\* ---------------------------------------------------------------- claims
\* The domains as CrosswordCreator.__init__ and enforce_node_consistency
\* leave them.
Unpruned == NodeConsistent([var \in variables |-> words])

\* The letters of an assignment (a function from slots to words) agree in
\* every cell two of its slots share.
CellsAgree(f) ==
    \A v1 \in DOMAIN f, v2 \in DOMAIN f :
        v1 # v2 =>
            \A k1 \in 1..v1.length, k2 \in 1..v2.length :
                Cells(v1)[k1] = Cells(v2)[k2] => f[v1][k1] = f[v2][k2]

LengthsFit(f) == \A v \in DOMAIN f : Len(f[v]) = v.length

Distinct(f) == \A v1 \in DOMAIN f, v2 \in DOMAIN f : v1 # v2 => f[v1] # f[v2]

\* The complete assignments of vocabulary words that satisfy the length and
\* overlap constraints, and those whose words are distinct as well.
ArcSolutions == { f \in [variables -> words] : LengthsFit(f) /\ CellsAgree(f) }

Solutions == { f \in ArcSolutions : Distinct(f) }

\* Some domain has lost a word since enforce_node_consistency.
Pruned == \E v \in variables : domains[v] # Unpruned[v]

\* C1: an assignment solve() returns covers every slot, its words are
\* pairwise distinct, each has the length of its slot, and crossing slots
\* hold the same letter in the cell they share.
SolveReturnsConsistent ==
    (pc = "done" /\ result # None) =>
        /\ DOMAIN result[1] = variables
        /\ Distinct(result[1])
        /\ LengthsFit(result[1])
        /\ CellsAgree(result[1])

\* C1 witness: solve() returned an assignment of at least three slots.
SolveReturnsConsistentWitness ==
    pc = "done" /\ result # None /\ Cardinality(variables) >= 3

\* C2 as claimed: once ac3 has returned False, backtrack is never entered.
NoSearchAfterAc3Failure ==
    ac3_ret = Some(FALSE) => (pc # "backtrack" /\ stack = <<>>)

\* C2 as amended: solve() runs enforce_node_consistency, then ac3, then
\* backtrack whatever ac3 returned; when ac3 returned False that call of
\* backtrack selects a slot with an empty domain, tries no value, and solve()
\* returns the no-solution result.
SolveOrder ==
    /\ pc \in {"ac3", "ac3_loop", "ac3_returned", "backtrack", "done"} =>
            \A v \in variables : \A w \in domains[v] : Len(w) = v.length
    /\ pc \in {"backtrack", "done"} => ac3_ret # None
    /\ pc # "raised"
    /\ ac3_ret = Some(FALSE) =>
        /\ pc = "backtrack" =>
            /\ Len(stack) = 1
            /\ stack[1].assignment = <<>>
            /\ stack[1].remaining = {}
        /\ pc = "done" => result = None

\* C2 witness: ac3 returned False, backtrack was entered and returned None.
SolveOrderWitness ==
    pc = "done" /\ ac3_ret = Some(FALSE) /\ result = None

\* C3: once ac3 has returned True, every word left in the domain of a slot
\* has, for every neighbour of the slot, a word in the neighbour's domain
\* with the same letter at the overlap.
ArcConsistentAfterAc3 ==
    ac3_ret = Some(TRUE) =>
        \A x \in variables : \A y \in neighbors(x) :
            \A w \in domains[x] : \E u \in domains[y] :
                At(w, overlaps[<<x, y>>][1][1]) = At(u, overlaps[<<x, y>>][1][2])

\* C3 witness: ac3 returned True after it removed words.
ArcConsistentAfterAc3Witness ==
    ac3_ret = Some(TRUE) /\ Pruned

\* C4: once ac3 has returned False, no complete assignment of words of the
\* unpruned domains satisfies the length and overlap constraints, and
\* backtrack on the unpruned domains returns None.
Ac3FailureSound ==
    ac3_ret = Some(FALSE) =>
        /\ ArcSolutions = {}
        /\ pc = "done" => result = None

\* C4 witness: ac3 returned False though node consistency left every domain
\* a word, and backtrack on the unpruned domains has returned.
Ac3FailureSoundWitness ==
    /\ pc = "done"
    /\ ac3_ret = Some(FALSE)
    /\ \A v \in variables : Unpruned[v] # {}

\* C5: a second run of solve() on the same grid and vocabulary returns what
\* the first run returned.
SolveDeterministic ==
    (pc = "done" /\ prev # <<>>) => result = prev[1]

\* What consistent() is to return: False for a repeated word, a word that
\* does not have the length of its slot, or two assigned neighbours that
\* differ at their overlap; True otherwise.
Expected(assignment) ==
    LET f == AsDict(assignment)
    IN  IF Distinct(f) /\ LengthsFit(f) /\ CellsAgree(f) THEN "True" ELSE "False"

\* C6: consistent() returns the boolean Expected names, whatever the lengths
\* of the words.
ConsistentReturnsBoolean ==
    pc = "checked" => result = Some(Expected(checked))

\* C7: every call of solve() returns.
SolveTerminates == (pc = "solve") ~> (pc = "done")

\* C7 witness: solve() returned None after ac3 returned True and backtrack
\* went through every value of slots with non-empty domains.
SolveTerminatesWitness ==
    /\ pc = "done"
    /\ result = None
    /\ ac3_ret = Some(TRUE)
    /\ Cardinality(variables) >= 2
    /\ \A v \in variables : domains[v] # {}

\* C8: for distinct slots A and B, overlaps[A, B] is None exactly when
\* overlaps[B, A] is, which is when they share no cell; otherwise they share
\* one cell, overlaps[A, B] = (p, q) and overlaps[B, A] = (q, p), p and q the
\* positions of that cell in A's and in B's cells.
OverlapsSymmetric ==
    pc # "Crossword" =>
        \A A \in variables, B \in variables :
            A # B =>
                LET shared == Range(Cells(A)) \cap Range(Cells(B))
                    ab == overlaps[<<A, B>>]
                    ba == overlaps[<<B, A>>]
                IN  /\ (ab = None) <=> (ba = None)
                    /\ (ab = None) <=> (shared = {})
                    /\ ab # None =>
                        /\ Cardinality(shared) = 1
                        /\ ba = Some(<<ab[1][2], ab[1][1]>>)
                        /\ Cells(A)[ab[1][1] + 1] \in shared
                        /\ Cells(B)[ab[1][2] + 1] \in shared

\* C8 witness: two slots that cross at different positions.
OverlapsSymmetricWitness ==
    \E A \in variables, B \in variables :
        /\ A # B
        /\ overlaps[<<A, B>>] # None
        /\ overlaps[<<A, B>>][1][1] # overlaps[<<A, B>>][1][2]

\* C9: in whatever order the arcs are taken from the worklist, ac3 returns
\* what it returns taking them first in, first out, and where that is True
\* it leaves the same domains.
Ac3Confluent ==
    ac3_ret # None =>
        LET fifo == Ac3Fifo(AllArcs, Unpruned)
        IN  /\ ac3_ret = Some(fifo.ret)
            /\ fifo.ret => domains = fifo.domains

\* C9 witness: ac3 returned True after it removed words from the domains of
\* two slots.
Ac3ConfluentWitness ==
    /\ ac3_ret = Some(TRUE)
    /\ \E v1 \in variables, v2 \in variables :
        /\ v1 # v2
        /\ domains[v1] # Unpruned[v1]
        /\ domains[v2] # Unpruned[v2]

\* C10: node consistency and ac3 remove no word of a solution, and where a
\* solution exists solve() returns an assignment.
SolveComplete ==
    /\ pc # "Crossword" =>
            \A f \in Solutions : \A v \in variables : f[v] \in domains[v]
    /\ (pc = "done" /\ Solutions # {}) => result # None

\* C10 witness: solve() returned an assignment of a grid with crossing slots
\* after ac3 removed words.
SolveCompleteWitness ==
    /\ pc = "done"
    /\ result # None
    /\ Pruned
    /\ \E v \in variables : neighbors(v) # {}
====
